---- MODULE Spec2Model ----
(***************************************************************************)
(* Undo/redo history (hooks/useUndoRedo.ts) and the expression editor      *)
(* built on it (hooks/useExpressionEditor.ts).                             *)
(*                                                                         *)
(* A string is a sequence of one-character strings, so '' is <<>>.         *)
(* One action is one event handler run against the values of the last      *)
(* render, followed by the re-render that applies the queued state         *)
(* updates.                                                                *)
(***************************************************************************)
EXTENDS Integers, Sequences, FiniteSets

VARIABLES
    value,            \* useUndoRedo state.value
    undoStack,        \* useUndoRedo state.undoStack, oldest first
    redoStack,        \* useUndoRedo state.redoStack, most recently undone first
    maxHistory,       \* options.maxHistory
    cursorPosition,   \* useExpressionEditor state
    selectionStart,
    selectionEnd,
    isValid,
    validator,        \* options.validator: which predicate was supplied
    pending,          \* clipboard promises in flight, with the closure each one holds
    notified,         \* callbacks invoked by the last handler, in call order
    lastOp,           \* history variable: the last handler, and what it started from or
                      \* what the validator said of each string it handed to setExpression
    ghost             \* history variable: the initial value, the edits made and the undos that followed

vars == <<value, undoStack, redoStack, maxHistory, cursorPosition, selectionStart,
          selectionEnd, isValid, validator, pending, notified, lastOp, ghost>>

historyVars == <<value, undoStack, redoStack>>
editorVars == <<cursorPosition, selectionStart, selectionEnd, isValid>>

(***************************************************************************)
(* Bounds                                                                  *)
(***************************************************************************)
MaxValueLen == 2       \* longest value handed to useUndoRedo.setValue
MaxHistoryOption == 3  \* largest maxHistory tried (0..MaxHistoryOption)
MaxStack == 3          \* cap on the undo stack where the code itself has none
MaxEdits == 3          \* setValue calls in a run of edits followed by undos

\* useUndoRedo treats its value as opaque: it only compares it with '' and
\* with other values, so values that differ in length are enough.
ValueChars == {"1"}

Max(a, b) == IF a >= b THEN a ELSE b

Min(a, b) == IF a <= b THEN a ELSE b

\* All strings over chars of length at most n.
StringsUpTo(chars, n) == UNION {[1..k -> chars] : k \in 0..n}

Values == StringsUpTo(ValueChars, MaxValueLen)

(***************************************************************************)
(* JavaScript built-ins used by the hooks                                  *)
(***************************************************************************)
\* Relative index of Array.prototype.slice / String.prototype.slice:
\* a negative index counts from the end, and the result is clamped to [0, len].
RelIndex(i, len) == IF i < 0 THEN Max(len + i, 0) ELSE Min(i, len)

\* a.slice(start, end)
slice(a, start, end) ==
    LET k == RelIndex(start, Len(a))
        f == RelIndex(end, Len(a))
    IN  IF k >= f THEN <<>> ELSE SubSeq(a, k + 1, f)

\* a.slice(start)
sliceFrom(a, start) == slice(a, start, Len(a))

(***************************************************************************)
(* useUndoRedo                                                             *)
(***************************************************************************)
state == [value |-> value, undoStack |-> undoStack, redoStack |-> redoStack]

\* The options object a caller passes: UseUndoRedoOptions has the keys
\* maxHistory, enableKeyboardShortcuts and onChange. A change callback is
\* always supplied here, under the key the interface declares.
options == [maxHistory |-> maxHistory, onChange |-> "onChange"]

\* `const { ..., onChangeCallback = undefined } = options`: the options type
\* has the key onChange, never onChangeCallback, so the default is what is bound.
onChangeCallback ==
    IF "onChangeCallback" \in DOMAIN options
    THEN options["onChangeCallback"]
    ELSE "undefined"

\* onChangeCallback?.(v, action)
callOnChange(v, action) ==
    IF onChangeCallback = "undefined"
    THEN <<>>
    ELSE <<[callback |-> "onChange", value |-> v, action |-> action]>>

\* Mutant of setValue: the redo stack survives a new edit.
setValue_keepsRedo(prevState, newValue) ==
    [value     |-> newValue,
     undoStack |-> IF prevState.value # newValue /\ prevState.value # <<>>
                   THEN sliceFrom(Append(prevState.undoStack, prevState.value), -maxHistory)
                   ELSE prevState.undoStack,
     redoStack |-> prevState.redoStack]

\* Mutant of setValue: the trim keeps the oldest entries, slice(0, maxHistory).
setValue_keepsOldest(prevState, newValue) ==
    [value     |-> newValue,
     undoStack |-> IF prevState.value # newValue /\ prevState.value # <<>>
                   THEN slice(Append(prevState.undoStack, prevState.value), 0, maxHistory)
                   ELSE prevState.undoStack,
     redoStack |-> <<>>]

\* Mutant of setValue: the test `prevState.value !== ''` is missing.
setValue_recordsEmpty(prevState, newValue) ==
    [value     |-> newValue,
     undoStack |-> IF prevState.value # newValue
                   THEN sliceFrom(Append(prevState.undoStack, prevState.value), -maxHistory)
                   ELSE prevState.undoStack,
     redoStack |-> <<>>]

\* The state updater of setValue(newValue).
setValue(prevState, newValue) ==
    [value     |-> newValue,
     undoStack |-> IF prevState.value # newValue /\ prevState.value # <<>>
                   THEN sliceFrom(Append(prevState.undoStack, prevState.value), -maxHistory)
                   ELSE prevState.undoStack,
     redoStack |-> <<>>]

\* Mutant of undo: the pre-undo value goes to the back of the redo stack.
undo_appendsToRedo(prevState) ==
    IF Len(prevState.undoStack) = 0
    THEN prevState
    ELSE LET n == Len(prevState.undoStack)
         IN  [value     |-> prevState.undoStack[n],
              undoStack |-> SubSeq(prevState.undoStack, 1, n - 1),
              redoStack |-> slice(Append(prevState.redoStack, prevState.value), 0, maxHistory)]

\* Mutant of undo: shift() instead of pop(), the oldest entry is restored.
undo_takesOldest(prevState) ==
    IF Len(prevState.undoStack) = 0
    THEN prevState
    ELSE [value     |-> Head(prevState.undoStack),
          undoStack |-> Tail(prevState.undoStack),
          redoStack |-> slice(<<prevState.value>> \o prevState.redoStack, 0, maxHistory)]

\* Mutant of undo: the test for an empty undo stack is missing, and the
\* current value moves to the redo stack with nothing to restore.
undo_unguarded(prevState) ==
    IF Len(prevState.undoStack) = 0
    THEN [value     |-> <<>>,
          undoStack |-> <<>>,
          redoStack |-> slice(<<prevState.value>> \o prevState.redoStack, 0, maxHistory)]
    ELSE LET n == Len(prevState.undoStack)
         IN  [value     |-> prevState.undoStack[n],
              undoStack |-> SubSeq(prevState.undoStack, 1, n - 1),
              redoStack |-> slice(<<prevState.value>> \o prevState.redoStack, 0, maxHistory)]

\* Mutant of undo: the redo stack is capped one entry short of maxHistory.
undo_capsRedoShort(prevState) ==
    IF Len(prevState.undoStack) = 0
    THEN prevState
    ELSE LET n == Len(prevState.undoStack)
         IN  [value     |-> prevState.undoStack[n],
              undoStack |-> SubSeq(prevState.undoStack, 1, n - 1),
              redoStack |-> slice(<<prevState.value>> \o prevState.redoStack,
                                  0, Max(maxHistory - 1, 1))]

\* The state updater of undo().
undo(prevState) ==
    IF Len(prevState.undoStack) = 0
    THEN prevState
    ELSE LET n == Len(prevState.undoStack)
             previousValue == prevState.undoStack[n]
             newUndoStack == SubSeq(prevState.undoStack, 1, n - 1)
         IN  [value     |-> previousValue,
              undoStack |-> newUndoStack,
              redoStack |-> slice(<<prevState.value>> \o prevState.redoStack, 0, maxHistory)]

\* Mutant of redo: pop() instead of shift(), the oldest undone value comes back.
redo_takesLast(prevState) ==
    IF Len(prevState.redoStack) = 0
    THEN prevState
    ELSE LET n == Len(prevState.redoStack)
         IN  [value     |-> prevState.redoStack[n],
              undoStack |-> sliceFrom(Append(prevState.undoStack, prevState.value), -maxHistory),
              redoStack |-> SubSeq(prevState.redoStack, 1, n - 1)]

\* Mutant of clearHistory: only the undo stack is emptied.
clearHistory_keepsRedo(prevState) ==
    [value |-> prevState.value, undoStack |-> <<>>, redoStack |-> prevState.redoStack]

\* The state updater of redo().
redo(prevState) ==
    IF Len(prevState.redoStack) = 0
    THEN prevState
    ELSE LET nextValue == Head(prevState.redoStack)
             newRedoStack == Tail(prevState.redoStack)
         IN  [value     |-> nextValue,
              undoStack |-> sliceFrom(Append(prevState.undoStack, prevState.value), -maxHistory),
              redoStack |-> newRedoStack]

\* The state updater of clearHistory().
clearHistory(prevState) ==
    [value |-> prevState.value, undoStack |-> <<>>, redoStack |-> <<>>]

\* Callbacks the undo()/redo() updaters invoke: none when the stack is empty.
undoCalls(prevState) ==
    IF Len(prevState.undoStack) = 0
    THEN <<>>
    ELSE callOnChange(prevState.undoStack[Len(prevState.undoStack)], "undo")

redoCalls(prevState) ==
    IF Len(prevState.redoStack) = 0
    THEN <<>>
    ELSE callOnChange(Head(prevState.redoStack), "redo")

\* edits: the value that was current before each value-changing setValue;
\* recorded: the same, for the calls made while the current value was not '';
\* depth: the undo entries held when the edits ended; undos: undo() calls since.
\* initialValid: whether the validator accepts the value the hook was mounted with.
NoGhost(initialValid) ==
    [edits |-> <<>>, recorded |-> <<>>, depth |-> 0, undos |-> 0,
     initialValid |-> initialValid]

\* useUndoRedo(initialValue, {maxHistory}) mounted on its own.
InitUndoRedo ==
    /\ value \in Values
    /\ undoStack = <<>>
    /\ redoStack = <<>>
    /\ maxHistory \in 0..MaxHistoryOption
    /\ cursorPosition = 0
    /\ selectionStart = 0
    /\ selectionEnd = 0
    /\ isValid = TRUE
    /\ validator = "none"
    /\ pending = <<>>
    /\ notified = <<>>
    /\ lastOp = [op |-> "mount", arg |-> value, prev |-> state]
    /\ ghost = NoGhost(TRUE)

Commit(next) ==
    /\ value' = next.value
    /\ undoStack' = next.undoStack
    /\ redoStack' = next.redoStack

\* One call of setValue(newValue) from an event handler.
SetValueCall(newValue) ==
    /\ Len(setValue(state, newValue).undoStack) <= MaxStack
    /\ Commit(setValue(state, newValue))
    /\ notified' = callOnChange(newValue, "set")
    /\ lastOp' = [op |-> "setValue", arg |-> newValue, prev |-> state]
    /\ UNCHANGED <<maxHistory, editorVars, validator, pending>>

\* One call of undo() from an event handler.
UndoCall ==
    /\ Commit(undo(state))
    /\ notified' = undoCalls(state)
    /\ lastOp' = [op |-> "undo", arg |-> <<>>, prev |-> state]
    /\ UNCHANGED <<maxHistory, editorVars, validator, pending>>

SetValue(newValue) == SetValueCall(newValue) /\ UNCHANGED ghost

Undo == UndoCall /\ UNCHANGED ghost

Redo ==
    /\ Len(redo(state).undoStack) <= MaxStack
    /\ Commit(redo(state))
    /\ notified' = redoCalls(state)
    /\ lastOp' = [op |-> "redo", arg |-> <<>>, prev |-> state]
    /\ UNCHANGED <<maxHistory, editorVars, validator, pending, ghost>>

ClearHistory ==
    /\ Commit(clearHistory(state))
    /\ notified' = <<>>
    /\ lastOp' = [op |-> "clearHistory", arg |-> <<>>, prev |-> state]
    /\ UNCHANGED <<maxHistory, editorVars, validator, pending, ghost>>

\* act(() => { undo(); redo() }): both updaters are queued in one handler and
\* applied in order.
UndoThenRedo ==
    /\ Len(redo(undo(state)).undoStack) <= MaxStack
    /\ Commit(redo(undo(state)))
    /\ notified' = undoCalls(state) \o redoCalls(undo(state))
    /\ lastOp' = [op |-> "undo;redo", arg |-> <<>>, prev |-> state]
    /\ UNCHANGED <<maxHistory, editorVars, validator, pending, ghost>>

NextUndoRedo ==
    \/ \E newValue \in Values : SetValue(newValue)
    \/ Undo
    \/ Redo
    \/ ClearHistory
    \/ UndoThenRedo

SpecUndoRedo == InitUndoRedo /\ [][NextUndoRedo]_vars

(***************************************************************************)
(* Properties of useUndoRedo (checked under SpecUndoRedo)                  *)
(***************************************************************************)
\* The n newest entries of a stack kept oldest first.
NewestN(s, n) == [i \in 1..Min(n, Len(s)) |-> s[Len(s) - Min(n, Len(s)) + i]]

\* The n first entries of a sequence.
FirstN(s, n) == [i \in 1..Min(n, Len(s)) |-> s[i]]

\* C3: immediately after setValue(v) with v different from the current value
\* the redo stack is empty.
C3_RedoEmptyAfterSetValue ==
    (lastOp.op = "setValue" /\ lastOp.arg # lastOp.prev.value) => redoStack = <<>>

\* C3 witness: a value-changing setValue made while the redo stack held entries.
C3_Witness ==
    /\ lastOp.op = "setValue"
    /\ lastOp.arg # lastOp.prev.value
    /\ lastOp.prev.redoStack # <<>>
    /\ redoStack = <<>>

\* C4: the undo stack never holds more than maxHistory entries, for every
\* maxHistory >= 0.
C4_UndoStackWithinMaxHistory == Len(undoStack) <= maxHistory

\* C5 as claimed: undo() immediately followed by redo() leaves the current
\* value as it was, in every reachable state.
C5_RoundTripEverywhere ==
    lastOp.op = "undo;redo" => value = lastOp.prev.value

\* C5 as amended: undo() immediately followed by redo() leaves the current
\* value as it was when the undo stack is non-empty and maxHistory >= 1; on an
\* empty undo stack the undo does nothing and the pair acts as one redo.
C5_RoundTripWhenUndoable ==
    /\ (lastOp.op = "undo;redo" /\ lastOp.prev.undoStack # <<>> /\ maxHistory >= 1)
           => state = lastOp.prev
    /\ (lastOp.op = "undo;redo" /\ lastOp.prev.undoStack = <<>>)
           => state = redo(lastOp.prev)

\* C5 witness: the pair was run from a state with entries on both stacks.
C5_Witness ==
    /\ lastOp.op = "undo;redo"
    /\ lastOp.prev.undoStack # <<>>
    /\ lastOp.prev.redoStack # <<>>
    /\ value = lastOp.prev.value

\* C7: setValue(v) with v equal to the current value changes nothing: value,
\* undo stack and redo stack are as before.
C7_SetSameValueIsNoOp ==
    (lastOp.op = "setValue" /\ lastOp.arg = lastOp.prev.value) => state = lastOp.prev

\* C8: setValue(v) with v different from a non-empty current value appends the
\* old value as the newest undo entry, keeps the newest maxHistory entries in
\* order, and makes v current.
C8_SetValuePushesAndTrims ==
    (lastOp.op = "setValue" /\ lastOp.arg # lastOp.prev.value /\ lastOp.prev.value # <<>>)
        => /\ undoStack = NewestN(Append(lastOp.prev.undoStack, lastOp.prev.value), maxHistory)
           /\ value = lastOp.arg

\* C9: setValue(v) called while the current value is '' leaves the undo stack
\* as it was, makes v current and empties the redo stack.
C9_EmptyValueNotRecorded ==
    (lastOp.op = "setValue" /\ lastOp.prev.value = <<>>)
        => /\ undoStack = lastOp.prev.undoStack
           /\ value = lastOp.arg
           /\ redoStack = <<>>

\* C9 witness: a later edit (not the first one) that started from '' with
\* entries already on the undo stack.
C9_Witness ==
    /\ lastOp.op = "setValue"
    /\ lastOp.prev.value = <<>>
    /\ lastOp.arg # <<>>
    /\ lastOp.prev.undoStack # <<>>
    /\ undoStack = lastOp.prev.undoStack

\* C10: undo() with a non-empty undo stack removes the newest undo entry and
\* makes it current, puts the pre-undo value at the front of the redo stack
\* (capped at maxHistory) and keeps the other undo entries in order.
C10_UndoMovesNewestEntry ==
    (lastOp.op = "undo" /\ lastOp.prev.undoStack # <<>>)
        => LET n == Len(lastOp.prev.undoStack)
           IN  /\ value = lastOp.prev.undoStack[n]
               /\ undoStack = FirstN(lastOp.prev.undoStack, n - 1)
               /\ redoStack = FirstN(<<lastOp.prev.value>> \o lastOp.prev.redoStack, maxHistory)

\* C10 witness: an undo from a state with two undo entries and a redo entry.
C10_Witness ==
    /\ lastOp.op = "undo"
    /\ Len(lastOp.prev.undoStack) >= 2
    /\ lastOp.prev.redoStack # <<>>
    /\ Len(redoStack) = Len(lastOp.prev.redoStack) + 1

\* C11: redo() with a non-empty redo stack removes the first redo entry and
\* makes it current, appends the pre-redo value to the undo stack as its newest
\* entry (the newest maxHistory entries are kept) and keeps the other redo
\* entries in order.
C11_RedoMovesFirstEntry ==
    (lastOp.op = "redo" /\ lastOp.prev.redoStack # <<>>)
        => /\ value = lastOp.prev.redoStack[1]
           /\ undoStack = NewestN(Append(lastOp.prev.undoStack, lastOp.prev.value), maxHistory)
           /\ undoStack[Len(undoStack)] = lastOp.prev.value
           /\ redoStack = [i \in 1..(Len(lastOp.prev.redoStack) - 1)
                               |-> lastOp.prev.redoStack[i + 1]]

\* C11 witness: a redo from a state with two redo entries and an undo entry.
C11_Witness ==
    /\ lastOp.op = "redo"
    /\ Len(lastOp.prev.redoStack) >= 2
    /\ lastOp.prev.undoStack # <<>>
    /\ value = lastOp.prev.redoStack[1]
    /\ Len(undoStack) = Len(lastOp.prev.undoStack) + 1

\* C12: clearHistory() empties the undo stack and the redo stack and leaves
\* the current value as it was.
C12_ClearHistoryEmptiesBothStacks ==
    lastOp.op = "clearHistory"
        => /\ undoStack = <<>>
           /\ redoStack = <<>>
           /\ value = lastOp.prev.value

\* C12 witness: clearHistory called with entries on both stacks.
C12_Witness ==
    /\ lastOp.op = "clearHistory"
    /\ lastOp.prev.undoStack # <<>>
    /\ lastOp.prev.redoStack # <<>>
    /\ lastOp.prev.value # <<>>
    /\ undoStack = <<>>
    /\ redoStack = <<>>

\* C13: undo() with an empty undo stack and redo() with an empty redo stack
\* change nothing (value and both stacks are as before) and invoke no callback.
C13_EmptyStackUndoRedoIsNoOp ==
    /\ (lastOp.op = "undo" /\ lastOp.prev.undoStack = <<>>)
           => (state = lastOp.prev /\ notified = <<>>)
    /\ (lastOp.op = "redo" /\ lastOp.prev.redoStack = <<>>)
           => (state = lastOp.prev /\ notified = <<>>)

\* C13 witness: an undo with nothing left to undo, while the redo stack holds
\* the values undone before.
C13_Witness ==
    /\ lastOp.op = "undo"
    /\ lastOp.prev.undoStack = <<>>
    /\ lastOp.prev.redoStack # <<>>
    /\ state = lastOp.prev

\* C15: with an onChange callback in the options, each committed setValue,
\* undo and redo invokes it once with (newValue, action), action being 'set',
\* 'undo' or 'redo'.
C15_OnChangeFiresOncePerMutation ==
    /\ lastOp.op = "setValue"
           => notified = <<[callback |-> "onChange", value |-> lastOp.arg, action |-> "set"]>>
    /\ (lastOp.op = "undo" /\ lastOp.prev.undoStack # <<>>)
           => notified = <<[callback |-> "onChange", value |-> value, action |-> "undo"]>>
    /\ (lastOp.op = "redo" /\ lastOp.prev.redoStack # <<>>)
           => notified = <<[callback |-> "onChange", value |-> value, action |-> "redo"]>>

(***************************************************************************)
(* A run of setValue calls followed by undo calls (SpecEdits)              *)
(***************************************************************************)
EditsSetValue(newValue) ==
    /\ ghost.undos = 0
    /\ Len(ghost.edits) < MaxEdits
    /\ SetValueCall(newValue)
    /\ ghost' = [edits    |-> IF newValue # value
                               THEN Append(ghost.edits, value) ELSE ghost.edits,
                  recorded |-> IF newValue # value /\ value # <<>>
                               THEN Append(ghost.recorded, value) ELSE ghost.recorded,
                  depth    |-> Len(undoStack'),
                  undos    |-> 0,
                  initialValid |-> ghost.initialValid]

EditsUndo ==
    /\ ghost.undos < MaxEdits
    /\ UndoCall
    /\ ghost' = [ghost EXCEPT !.undos = @ + 1]

NextEdits ==
    \/ \E newValue \in Values : EditsSetValue(newValue)
    \/ EditsUndo

SpecEdits == InitUndoRedo /\ [][NextEdits]_vars

\* C6 as claimed: after N undos (N at most the number of recorded edits) the
\* current value is the one that was current before the N-th most recent
\* value-changing setValue.
C6_UndoRevertsEachEdit ==
    (ghost.undos >= 1 /\ ghost.undos <= ghost.depth)
        => value = ghost.edits[Len(ghost.edits) - ghost.undos + 1]

\* C6 as amended: after N undos (N at most the number of undo entries held)
\* the current value is the one that was current before the N-th most recent
\* recorded edit, a recorded edit being a value-changing setValue made while
\* the current value was not ''.
C6_UndoRevertsEachRecordedEdit ==
    (ghost.undos >= 1 /\ ghost.undos <= ghost.depth)
        => value = ghost.recorded[Len(ghost.recorded) - ghost.undos + 1]

\* C6 witness: two undos after three edits, one of which started from '' and
\* was not recorded.
C6_Witness ==
    /\ ghost.undos = 2
    /\ ghost.depth >= 2
    /\ Len(ghost.edits) > Len(ghost.recorded)
    /\ value = ghost.recorded[Len(ghost.recorded) - 1]

(***************************************************************************)
(* useExpressionEditor                                                     *)
(***************************************************************************)
MaxLen == 2            \* longest expression the editor is driven to

EditorChars == {"(", ")"}

Expressions == StringsUpTo(EditorChars, MaxLen)

\* Typed or pasted text.
Texts == StringsUpTo(EditorChars, 1)

\* Integer arguments of deleteText / replaceText / setCursorPosition / setSelection.
Positions == -1..(MaxLen + 1)

\* A rejected insertText still moves the cursor right, without limit.
CursorLimit == MaxLen + 1

\* maxHistory values the editor is mounted with (the default is 50).
EditorHistories == {1, 2}

\* The validators the repository passes: none, ExpressionUtils.validateExpression
\* (examples) and expr => expr.length > 0 (tests).
Validators == {"none", "validateExpression", "nonEmpty"}

\* The 25 code units String.prototype.trim strips and \s matches: space, tab,
\* line feed, form feed, carriage return and vertical tab, written as
\* themselves, and the 19 code units outside ASCII (U+00A0, U+1680,
\* U+2000..U+200A, U+2028, U+2029, U+202F, U+205F, U+3000, U+FEFF), each
\* written by its code point so that it is one element whatever the encoding
\* the module is read with.
Whitespace ==
    {" ", "\t", "\n", "\f", "\r", "",
     "U+00A0", "U+1680", "U+2000", "U+2001", "U+2002", "U+2003", "U+2004",
     "U+2005", "U+2006", "U+2007", "U+2008", "U+2009", "U+200A", "U+2028",
     "U+2029", "U+202F", "U+205F", "U+3000", "U+FEFF"}

\* expression.trim() === ''
IsBlank(s) == \A i \in 1..Len(s) : s[i] \in Whitespace

\* One counting loop of validateExpression: the count of open minus close
\* never goes below zero and ends at zero.
RECURSIVE CountLoop(_, _, _, _, _)
CountLoop(s, i, count, open, close) ==
    IF i > Len(s)
    THEN count = 0
    ELSE LET c == count + (IF s[i] = open THEN 1 ELSE 0) - (IF s[i] = close THEN 1 ELSE 0)
         IN  IF c < 0 THEN FALSE ELSE CountLoop(s, i + 1, c, open, close)

\* Mutant of validateExpression: the square brackets are not counted.
validateExpression_parensOnly(expression) ==
    IF IsBlank(expression)
    THEN TRUE
    ELSE CountLoop(expression, 1, 0, "(", ")")

validateExpression(expression) ==
    IF IsBlank(expression)
    THEN TRUE
    ELSE /\ CountLoop(expression, 1, 0, "(", ")")
         /\ CountLoop(expression, 1, 0, "[", "]")

\* validator ? validator(expression) : true
Valid(expression) ==
    CASE validator = "none" -> TRUE
      [] validator = "validateExpression" -> validateExpression(expression)
      [] validator = "nonEmpty" -> Len(expression) > 0

\* What the editor exposes after a render, plus what the running handler has
\* done so far: the callbacks it invoked (calls) and the expressions it handed
\* to setExpression (asked).
editor ==
    [value |-> value, undoStack |-> undoStack, redoStack |-> redoStack,
     cursorPosition |-> cursorPosition, selectionStart |-> selectionStart,
     selectionEnd |-> selectionEnd, isValid |-> isValid, calls |-> <<>>, asked |-> <<>>]

hookOf(e) == [value |-> e.value, undoStack |-> e.undoStack, redoStack |-> e.redoStack]

withHook(e, h) ==
    [e EXCEPT !.value = h.value, !.undoStack = h.undoStack, !.redoStack = h.redoStack]

call(name, arg) == [callback |-> name, value |-> arg]

\* In the functions below `cur` is the state the queued updates have produced
\* so far and `r` is the render whose values the closure captured.

\* Mutant of setExpression: the result of the validator is stored in isValid
\* but the commit is not guarded by it.
setExpression_commitsRejected(cur, expression) ==
    [withHook(cur, setValue(hookOf(cur), expression)) EXCEPT
        !.isValid = Valid(expression),
        !.cursorPosition = Len(expression),
        !.calls = cur.calls \o callOnChange(expression, "set")
                     \o <<call("onExpressionChange", expression)>>,
        !.asked = Append(cur.asked, expression)]

\* setExpression(expression)
setExpression(cur, expression) ==
    IF Valid(expression)
    THEN [withHook(cur, setValue(hookOf(cur), expression)) EXCEPT
             !.isValid = TRUE,
             !.cursorPosition = Len(expression),
             !.calls = cur.calls \o callOnChange(expression, "set")
                          \o <<call("onExpressionChange", expression)>>,
             !.asked = Append(cur.asked, expression)]
    ELSE [cur EXCEPT !.isValid = FALSE, !.asked = Append(cur.asked, expression)]

\* Mutant of insertText: the new string goes to undoRedo.setValue directly,
\* not through setExpression.
insertText_ungated(cur, r, text) ==
    LET newExpression == slice(r.value, 0, r.cursorPosition) \o text
                             \o sliceFrom(r.value, r.cursorPosition)
    IN  [withHook(cur, setValue(hookOf(cur), newExpression)) EXCEPT
            !.cursorPosition = r.cursorPosition + Len(text),
            !.calls = cur.calls \o <<call("onExpressionChange", newExpression)>>]

\* insertText(text)
insertText(cur, r, text) ==
    LET newExpression == slice(r.value, 0, r.cursorPosition) \o text
                             \o sliceFrom(r.value, r.cursorPosition)
    IN  [setExpression(cur, newExpression) EXCEPT
            !.cursorPosition = r.cursorPosition + Len(text)]

\* deleteText(start, end)
deleteText(cur, r, start, end) ==
    LET newExpression == slice(r.value, 0, start) \o sliceFrom(r.value, end)
    IN  [setExpression(cur, newExpression) EXCEPT !.cursorPosition = Max(0, start)]

\* replaceText(start, end, replacement)
replaceText(cur, r, start, end, replacement) ==
    LET newExpression == slice(r.value, 0, start) \o replacement \o sliceFrom(r.value, end)
    IN  [setExpression(cur, newExpression) EXCEPT
            !.cursorPosition = start + Len(replacement)]

\* clear()
clear(cur) == [setExpression(cur, <<>>) EXCEPT !.cursorPosition = 0]

\* The editor's undo(): the cursor and the notified value come from the render.
editorUndo(cur, r) ==
    [withHook(cur, undo(hookOf(cur))) EXCEPT
        !.cursorPosition = IF Len(r.undoStack) > 0
                           THEN Len(r.undoStack[Len(r.undoStack)])
                           ELSE 0,
        !.calls = cur.calls \o undoCalls(hookOf(cur))
                     \o <<call("onExpressionChange", r.value)>>]

\* The editor's redo().
editorRedo(cur, r) ==
    [withHook(cur, redo(hookOf(cur))) EXCEPT
        !.cursorPosition = IF Len(r.redoStack) > 0
                           THEN Len(r.redoStack[1])
                           ELSE Len(r.value),
        !.calls = cur.calls \o redoCalls(hookOf(cur))
                     \o <<call("onExpressionChange", r.value)>>]

\* setCursorPosition(pos) as returned by the hook
setCursorPosition(cur, r, pos) ==
    [cur EXCEPT !.cursorPosition = Max(0, Min(pos, Len(r.value)))]

\* setSelection(start, end)
setSelection(cur, r, start, end) ==
    [cur EXCEPT !.selectionStart = Max(0, Min(start, Len(r.value))),
                !.selectionEnd = Max(0, Min(end, Len(r.value)))]

\* The body of paste() after `await navigator.clipboard.readText()` gave text.
pasteRead(cur, r, text) ==
    LET edited == IF r.selectionStart # r.selectionEnd
                  THEN replaceText(cur, r, r.selectionStart, r.selectionEnd, text)
                  ELSE insertText(cur, r, text)
    IN  [edited EXCEPT !.calls = edited.calls \o <<call("onPaste", text)>>]

\* useExpressionEditor({initialExpression, validator, maxHistory}) mounted.
Init ==
    /\ value \in Expressions
    /\ undoStack = <<>>
    /\ redoStack = <<>>
    /\ maxHistory \in EditorHistories
    /\ cursorPosition = Len(value)
    /\ selectionStart = 0
    /\ selectionEnd = 0
    /\ isValid = TRUE
    /\ validator \in Validators
    /\ pending = <<>>
    /\ notified = <<>>
    /\ lastOp = [op |-> "mount", accepted |-> <<>>]
    /\ ghost = NoGhost(Valid(value))

\* The re-render after a handler: every queued update is applied.
Render(next, op) ==
    /\ Len(next.value) <= MaxLen
    /\ next.cursorPosition <= CursorLimit
    /\ value' = next.value
    /\ undoStack' = next.undoStack
    /\ redoStack' = next.redoStack
    /\ cursorPosition' = next.cursorPosition
    /\ selectionStart' = next.selectionStart
    /\ selectionEnd' = next.selectionEnd
    /\ isValid' = next.isValid
    /\ notified' = next.calls
    /\ lastOp' = [op |-> op,
                  accepted |-> [i \in 1..Len(next.asked) |-> Valid(next.asked[i])]]
    /\ UNCHANGED <<maxHistory, validator, ghost>>

SetExpression(expression) ==
    Render(setExpression(editor, expression), "setExpression") /\ UNCHANGED pending

InsertText(text) ==
    Render(insertText(editor, editor, text), "insertText") /\ UNCHANGED pending

DeleteText(start, end) ==
    Render(deleteText(editor, editor, start, end), "deleteText") /\ UNCHANGED pending

ReplaceText(start, end, replacement) ==
    Render(replaceText(editor, editor, start, end, replacement), "replaceText")
        /\ UNCHANGED pending

Clear == Render(clear(editor), "clear") /\ UNCHANGED pending

EditorUndo == Render(editorUndo(editor, editor), "undo") /\ UNCHANGED pending

EditorRedo == Render(editorRedo(editor, editor), "redo") /\ UNCHANGED pending

SetCursorPosition(pos) ==
    Render(setCursorPosition(editor, editor, pos), "setCursorPosition") /\ UNCHANGED pending

\* The operations that edit, undo, redo and move the cursor, one call per
\* handler. Selection, clipboard and keyboard steps are added by Next below.
NextEditing ==
    \/ \E expression \in Expressions : SetExpression(expression)
    \/ \E text \in Texts : InsertText(text)
    \/ \E start, end \in Positions : DeleteText(start, end)
    \/ \E start, end \in Positions : \E replacement \in Texts :
           ReplaceText(start, end, replacement)
    \/ Clear
    \/ EditorUndo
    \/ EditorRedo
    \/ \E pos \in Positions : SetCursorPosition(pos)

SpecEditing == Init /\ [][NextEditing]_vars

(***************************************************************************)
(* Properties of useExpressionEditor (checked under SpecEditing)           *)
(***************************************************************************)
\* The operations that build a string and hand it to setExpression.
GatedOps == {"setExpression", "insertText", "deleteText", "replaceText"}

\* Every string the history holds: the current one and both stacks.
Held ==
    {value} \cup {undoStack[i] : i \in 1..Len(undoStack)}
            \cup {redoStack[i] : i \in 1..Len(redoStack)}

\* C1: setExpression(s) with a validator that rejects s sets isValid to false
\* and commits nothing: expression, undo stack and redo stack are as before and
\* no change callback is invoked; the same holds for the string built by
\* insertText, deleteText and replaceText.
C1_RejectedEditCommitsNothing ==
    [][(lastOp'.op \in GatedOps /\ lastOp'.accepted = <<FALSE>>)
          => /\ isValid' = FALSE
             /\ UNCHANGED <<value, undoStack, redoStack>>
             /\ notified' = <<>>]_vars

\* C1 witness: an insertText whose result the validator rejected, made while
\* both stacks held entries.
C1_Witness ==
    /\ lastOp.op = "insertText"
    /\ lastOp.accepted = <<FALSE>>
    /\ ~isValid
    /\ undoStack # <<>>
    /\ redoStack # <<>>

\* C2 as claimed: with a validator, for any initialExpression, the current
\* expression and every undo and redo entry satisfy the validator.
C2_HistoryHoldsOnlyValid ==
    validator # "none" => \A e \in Held : Valid(e)

\* C2 as amended: with a validator and an initialExpression that the validator
\* accepts (the initial expression is stored unvalidated), the current
\* expression and every undo and redo entry satisfy the validator.
C2_HistoryHoldsOnlyValidAfterValidInitial ==
    (validator # "none" /\ ghost.initialValid) => \A e \in Held : Valid(e)

\* C2 witness: under validateExpression, an undo landed on a non-empty
\* expression after edits, one of which was rejected along the way.
C2_Witness ==
    /\ validator = "validateExpression"
    /\ ghost.initialValid
    /\ lastOp.op = "undo"
    /\ value # <<>>
    /\ Valid(value)
    /\ redoStack # <<>>
    /\ ~isValid

\* C14: the editor's undo() with an empty undo stack, and redo() with an empty
\* redo stack, change nothing of the editor state (expression, cursorPosition,
\* selectionStart, selectionEnd) and emit no change notification.
C14_EmptyStackEditorUndoRedoIsNoOp ==
    [][((lastOp'.op = "undo" /\ undoStack = <<>>) \/ (lastOp'.op = "redo" /\ redoStack = <<>>))
          => /\ UNCHANGED <<value, cursorPosition, selectionStart, selectionEnd>>
             /\ notified' = <<>>]_vars

\* C16: in every reachable state 0 <= cursorPosition <= len(expression).
C16_CursorWithinExpression ==
    0 <= cursorPosition /\ cursorPosition <= Len(value)

(***************************************************************************)
(* Handlers that call several operations before the next render, and the   *)
(* selection (SpecHandlers)                                                *)
(***************************************************************************)
SetSelection(start, end) ==
    Render(setSelection(editor, editor, start, end), "setSelection") /\ UNCHANGED pending

\* editor.setExpression(expression); editor.setCursorPosition(cursorPos) in one
\* handler: setCursorPosition still sees the expression of the last render.
SetExpressionThenSetCursorPosition(expression, pos) ==
    Render(setCursorPosition(setExpression(editor, expression), editor, pos),
           "setExpression;setCursorPosition") /\ UNCHANGED pending

\* act(() => { setExpression(expression); undo() })
SetExpressionThenUndo(expression) ==
    Render(editorUndo(setExpression(editor, expression), editor), "setExpression;undo")
        /\ UNCHANGED pending

\* act(() => { setExpression(expression); undo(); redo() })
SetExpressionThenUndoThenRedo(expression) ==
    Render(editorRedo(editorUndo(setExpression(editor, expression), editor), editor),
           "setExpression;undo;redo") /\ UNCHANGED pending

NextHandlers ==
    \/ NextEditing
    \/ \E start, end \in Positions : SetSelection(start, end)
    \/ \E expression \in Expressions : \E pos \in Positions :
           SetExpressionThenSetCursorPosition(expression, pos)
    \/ \E expression \in Expressions : SetExpressionThenUndo(expression)
    \/ \E expression \in Expressions : SetExpressionThenUndoThenRedo(expression)

\* The editor mounted with maxHistory 1 and either no validator or
\* validateExpression: the cursor and the selection do not depend on how deep
\* the history is.
InitHandlers ==
    /\ Init
    /\ maxHistory = 1
    /\ validator \in {"none", "validateExpression"}

SpecHandlers == InitHandlers /\ [][NextHandlers]_vars

\* x clamped into [0, len].
Clamped(x, len) == IF x < 0 THEN 0 ELSE IF x > len THEN len ELSE x

\* s[0:n] and s[n:] for 0 <= n <= len(s).
Prefix(s, n) == [i \in 1..n |-> s[i]]

Suffix(s, n) == [i \in 1..(Len(s) - n) |-> s[n + i]]

\* C17: in every reachable state selectionStart and selectionEnd both lie in
\* [0, len(expression)], also after an operation that shortens the expression
\* following a setSelection.
C17_SelectionWithinExpression ==
    /\ 0 <= selectionStart /\ selectionStart <= Len(value)
    /\ 0 <= selectionEnd /\ selectionEnd <= Len(value)

\* C18: setCursorPosition(pos) stores pos clamped into [0, len(expression)] and
\* setSelection(start, end) stores each bound clamped into [0, len(expression)]
\* on its own; the expression and the history are unchanged by either. The
\* cursor stored is the clamped one also when the handler has set the
\* expression just before.
C18_CursorAndSelectionClamped ==
    [][/\ \A pos \in Positions :
              SetCursorPosition(pos)
                  => /\ cursorPosition' = Clamped(pos, Len(value'))
                     /\ UNCHANGED historyVars
       /\ \A start, end \in Positions :
              SetSelection(start, end)
                  => /\ selectionStart' = Clamped(start, Len(value'))
                     /\ selectionEnd' = Clamped(end, Len(value'))
                     /\ UNCHANGED historyVars
       /\ \A expression \in Expressions : \A pos \in Positions :
              SetExpressionThenSetCursorPosition(expression, pos)
                  => cursorPosition' = Clamped(pos, Len(value'))]_vars

\* C19: when the validator accepts the result and 0 <= start <= end <=
\* len(expression), replaceText(start, end, r) makes the expression
\* old[0:start] + r + old[end:] with the cursor at start + len(r), and
\* deleteText(start, end) makes it old[0:start] + old[end:] with the cursor at
\* start; insertText(t) with an accepted result puts t at the cursor position c
\* and leaves the cursor at c + len(t), which is the end of the inserted text.
C19_EditsPlaceTextAndCursor ==
    [][/\ \A start, end \in Positions : \A r \in Texts :
              (/\ lastOp'.op = "replaceText"
               /\ 0 <= start /\ start <= end /\ end <= Len(value)
               /\ Valid(Prefix(value, start) \o r \o Suffix(value, end))
               /\ ReplaceText(start, end, r))
                  => /\ value' = Prefix(value, start) \o r \o Suffix(value, end)
                     /\ cursorPosition' = start + Len(r)
       /\ \A start, end \in Positions :
              (/\ lastOp'.op = "deleteText"
               /\ 0 <= start /\ start <= end /\ end <= Len(value)
               /\ Valid(Prefix(value, start) \o Suffix(value, end))
               /\ DeleteText(start, end))
                  => /\ value' = Prefix(value, start) \o Suffix(value, end)
                     /\ cursorPosition' = start
       /\ \A t \in Texts :
              LET c == Clamped(cursorPosition, Len(value))
              IN  (/\ lastOp'.op = "insertText"
                   /\ Valid(Prefix(value, c) \o t \o Suffix(value, c))
                   /\ InsertText(t))
                      => /\ value' = Prefix(value, c) \o t \o Suffix(value, c)
                         /\ cursorPosition' = cursorPosition + Len(t)
                         /\ cursorPosition' = c + Len(t)]_vars

\* C20: after the editor's undo() or redo() has restored a string r as the
\* expression, cursorPosition = len(r), whatever the handler did before the
\* call.
C20_CursorAtEndOfRestored ==
    [][/\ (EditorUndo /\ undoStack # <<>>) => cursorPosition' = Len(value')
       /\ (EditorRedo /\ redoStack # <<>>) => cursorPosition' = Len(value')
       /\ \A expression \in Expressions :
              (/\ SetExpressionThenUndo(expression)
               /\ setExpression(editor, expression).undoStack # <<>>)
                  => cursorPosition' = Len(value')]_vars

(***************************************************************************)
(* copy() and paste(): the clipboard promise and what runs when it settles *)
(* (SpecClipboard)                                                         *)
(***************************************************************************)
MaxPending == 1        \* clipboard promises in flight while other handlers run
MaxInFlight == 2       \* clipboard promises in flight when only the clipboard is used

\* getSelectedText(): undoRedo.value.slice(selectionStart, selectionEnd)
getSelectedText(r) == slice(r.value, r.selectionStart, r.selectionEnd)

\* copy(): the text handed to navigator.clipboard.writeText
textToCopy(r) ==
    IF r.selectionStart # r.selectionEnd THEN getSelectedText(r) ELSE r.value

\* What the closures of copy() and paste() hold of the render they were created in.
closure(e) ==
    [value |-> e.value, cursorPosition |-> e.cursorPosition,
     selectionStart |-> e.selectionStart, selectionEnd |-> e.selectionEnd]

\* A promise in flight: the operation awaiting it and what the code that
\* resumes when it settles still reads: the text written (copy), the values of
\* the render in which it was called (paste).
copyPromise(text) == [op |-> "copy", text |-> text]

pastePromise(r) == [op |-> "paste", r |-> closure(r)]

RemoveAt(q, i) == [j \in 1..(Len(q) - 1) |-> IF j < i THEN q[j] ELSE q[j + 1]]

\* Mutant of the catch branch: the callback is invoked all the same.
clipboardFailed_notifies(cur) ==
    [cur EXCEPT !.calls = cur.calls \o <<call("onPaste", <<>>)>>]

\* The catch branch of copy() / paste(): console.error, nothing else.
clipboardFailed(cur) == cur

\* A step that touches the promises only: the editor state is as it was.
ClipboardStep(op, calls) ==
    /\ notified' = calls
    /\ lastOp' = [op |-> op, accepted |-> <<>>]
    /\ UNCHANGED <<historyVars, editorVars, maxHistory, validator, ghost>>

\* copy() up to its await: writeText is called with the text chosen now.
Copy ==
    /\ pending' = Append(pending, copyPromise(textToCopy(editor)))
    /\ ClipboardStep("copy", <<call("writeText", textToCopy(editor))>>)

\* writeText resolved: onCopy?.(textToCopy)
CopyResolved(i) ==
    /\ pending[i].op = "copy"
    /\ pending' = RemoveAt(pending, i)
    /\ ClipboardStep("copy.resolved", <<call("onCopy", pending[i].text)>>)

\* writeText rejected
CopyRejected(i) ==
    /\ pending[i].op = "copy"
    /\ pending' = RemoveAt(pending, i)
    /\ ClipboardStep("copy.rejected", clipboardFailed(editor).calls)

\* paste() up to its await: readText is called.
PasteCall ==
    /\ pending' = Append(pending, pastePromise(editor))
    /\ ClipboardStep("paste", <<call("readText", <<>>)>>)

\* readText resolved with text: the closure of the render in which paste()
\* was called goes on.
PasteResolved(i, text) ==
    /\ pending[i].op = "paste"
    /\ pending' = RemoveAt(pending, i)
    /\ Render(pasteRead(editor, pending[i].r, text), "paste.resolved")

\* readText rejected
PasteRejected(i) ==
    /\ pending[i].op = "paste"
    /\ pending' = RemoveAt(pending, i)
    /\ Render(clipboardFailed(editor), "paste.rejected")

\* The clipboard promises settling, in any order.
Settle ==
    \/ \E i \in 1..Len(pending) : CopyResolved(i)
    \/ \E i \in 1..Len(pending) : CopyRejected(i)
    \/ \E i \in 1..Len(pending) : \E text \in Texts : PasteResolved(i, text)
    \/ \E i \in 1..Len(pending) : PasteRejected(i)

\* copy() and paste() between typing and selecting. Nothing in the code
\* limits the promises in flight: the bound is the model's.
NextClipboard ==
    \/ (Len(pending) < MaxPending /\ Copy)
    \/ (Len(pending) < MaxPending /\ PasteCall)
    \/ Settle
    \/ \E text \in Texts : InsertText(text)
    \/ \E start, end \in Positions : SetSelection(start, end)

SpecClipboard == InitHandlers /\ [][NextClipboard]_vars

\* Only the Copy and Paste buttons are used.
NextInFlight ==
    \/ (Len(pending) < MaxInFlight /\ Copy)
    \/ (Len(pending) < MaxInFlight /\ PasteCall)
    \/ Settle

SpecInFlight == InitHandlers /\ [][NextInFlight]_vars

\* C21: copy() writes expression.slice(selectionStart, selectionEnd) to the
\* clipboard when the selection is non-empty and the whole expression
\* otherwise (a zero-width or reversed selection selects no text), and changes
\* nothing of the editor state.
C21_CopyWritesSelectionOrAll ==
    [][Copy => /\ notified' = <<call("writeText",
                                     IF selectionStart < selectionEnd
                                     THEN slice(value, selectionStart, selectionEnd)
                                     ELSE value)>>
               /\ UNCHANGED <<historyVars, editorVars>>]_vars

\* C23: when the clipboard promise of copy() or paste() rejects, no onCopy /
\* onPaste callback is invoked and the editor state (expression, cursor,
\* selection, isValid, undo and redo stacks) is as it was before.
C23_ClipboardFailureChangesNothing ==
    [][lastOp'.op \in {"copy.rejected", "paste.rejected"}
          => /\ notified' = <<>>
             /\ UNCHANGED <<historyVars, editorVars>>]_vars

\* C23 witness: the read of a paste was rejected after the user had typed and
\* selected text while it was in flight.
C23_Witness ==
    /\ lastOp.op = "paste.rejected"
    /\ notified = <<>>
    /\ pending = <<>>
    /\ undoStack # <<>>
    /\ selectionStart < selectionEnd

\* C24: no two clipboard operations of one editor are in flight at the same
\* time.
C24_OneClipboardOperationInFlight == Len(pending) <= 1

\* C30: when the read of a paste resolves, the text is applied to the
\* expression, cursor and selection current at that moment, so an edit
\* committed while the paste was in flight is kept.
C30_PasteAppliesToCurrentState ==
    [][\A i \in 1..Len(pending) : \A text \in Texts :
           PasteResolved(i, text)
               => /\ value' = pasteRead(editor, editor, text).value
                  /\ cursorPosition' = pasteRead(editor, editor, text).cursorPosition]_vars

\* C22: when the read of paste() gives text t, and nothing has changed since
\* paste() was called, the expression becomes the result of
\* replaceText(selectionStart, selectionEnd, t) if a non-empty selection
\* exists and of insertText(t) at the cursor otherwise; the edit goes through
\* the validator and, when it changes a non-empty expression, is recorded as
\* one undo entry (an edit made from '' leaves none, see C9).
C22_PasteReplacesSelectionOrInserts ==
    [][\A i \in 1..Len(pending) : \A text \in Texts :
           (PasteResolved(i, text) /\ pending[i].r = closure(editor))
               => LET e == IF selectionStart < selectionEnd
                           THEN replaceText(editor, editor, selectionStart, selectionEnd, text)
                           ELSE insertText(editor, editor, text)
                  IN  /\ value' = e.value
                      /\ isValid' = e.isValid
                      /\ (e.isValid /\ e.value # value /\ value # <<>>)
                             => undoStack' = NewestN(Append(undoStack, value), maxHistory)
                      /\ ~e.isValid => UNCHANGED historyVars]_vars

\* C29: when a handler feeds a smart edit back with setExpression(newText)
\* followed by setCursorPosition(newCursor), newText being accepted and
\* newCursor a position inside it, the editor ends with expression = newText
\* and cursorPosition = newCursor.
C29_SmartEditResultIsStored ==
    [][\A expression \in Expressions : \A pos \in Positions :
           (/\ Valid(expression)
            /\ 0 <= pos /\ pos <= Len(expression)
            /\ SetExpressionThenSetCursorPosition(expression, pos))
               => /\ value' = expression
                  /\ cursorPosition' = pos]_vars

(***************************************************************************)
(* A handler and the render that follows it as two steps (SpecRender)      *)
(***************************************************************************)
\* The state updates a handler has queued for the next render.
queued(next, op) == [op |-> op, next |-> next]

\* setExpression(expression) running in an event handler: the validator and the
\* callbacks run now, the state setters only queue their updates.
SetExpressionHandler(expression) ==
    /\ pending = <<>>
    /\ pending' = <<queued(setExpression(editor, expression), "setExpression")>>
    /\ notified' = setExpression(editor, expression).calls
    /\ lastOp' = [op |-> "handler", accepted |-> <<Valid(expression)>>]
    /\ UNCHANGED <<historyVars, editorVars, maxHistory, validator, ghost>>

\* React renders: the queued updates are applied together.
RenderQueued ==
    /\ pending # <<>>
    /\ Render(pending[1].next, pending[1].op)
    /\ pending' = <<>>

NextRender ==
    \/ \E expression \in Expressions : SetExpressionHandler(expression)
    \/ RenderQueued

SpecRender == Init /\ [][NextRender]_vars

\* C25: an accepted setExpression takes effect as one step: whenever the
\* change callback has been notified of a value, that value is the expression
\* the editor exposes, with the cursor at its end.
C25_NotifiedExpressionIsExposed ==
    \A i \in 1..Len(notified) :
        notified[i].callback = "onExpressionChange"
            => (value = notified[i].value /\ cursorPosition = Len(value))

(***************************************************************************)
(* Expression utilities, utils/expression-editor.ts (SpecUtils)            *)
(***************************************************************************)
MaxUtilLen == 4        \* longest string handed to a utility

UtilChars == {" ", "\r", "+", "-", "(", ")", "[", "]", "{", "a"}

UtilStrings == StringsUpTo(UtilChars, MaxUtilLen)

\* The operators inserted.
UtilOperators == {<<"+">>, <<"-">>}

\* The character class [+\-*/]
OperatorChars == {"+", "-", "*", "/"}

\* The first index from i on that holds no whitespace (Len(s) + 1 if none).
RECURSIVE SkipWhitespace(_, _)
SkipWhitespace(s, i) ==
    IF i <= Len(s) /\ s[i] \in Whitespace THEN SkipWhitespace(s, i + 1) ELSE i

trimStart(s) == SubSeq(s, SkipWhitespace(s, 1), Len(s))

RECURSIVE trimEnd(_)
trimEnd(s) ==
    IF Len(s) > 0 /\ s[Len(s)] \in Whitespace THEN trimEnd(SubSeq(s, 1, Len(s) - 1)) ELSE s

trim(s) == trimEnd(trimStart(s))

\* .replace(/\s+/g, ' ') from index i on
RECURSIVE replaceWhitespaceRuns(_, _)
replaceWhitespaceRuns(s, i) ==
    IF i > Len(s) THEN <<>>
    ELSE IF s[i] \in Whitespace
         THEN <<" ">> \o replaceWhitespaceRuns(s, SkipWhitespace(s, i))
         ELSE <<s[i]>> \o replaceWhitespaceRuns(s, i + 1)

\* .replace(/\(\s+/g, '(') from index i on
RECURSIVE replaceAfterOpenParen(_, _)
replaceAfterOpenParen(s, i) ==
    IF i > Len(s) THEN <<>>
    ELSE IF s[i] = "(" /\ SkipWhitespace(s, i + 1) > i + 1
         THEN <<"(">> \o replaceAfterOpenParen(s, SkipWhitespace(s, i + 1))
         ELSE <<s[i]>> \o replaceAfterOpenParen(s, i + 1)

\* .replace(/\s+\)/g, ')') from index i on
RECURSIVE replaceBeforeCloseParen(_, _)
replaceBeforeCloseParen(s, i) ==
    IF i > Len(s) THEN <<>>
    ELSE LET j == SkipWhitespace(s, i)
         IN  IF j > i /\ j <= Len(s) /\ s[j] = ")"
             THEN <<")">> \o replaceBeforeCloseParen(s, j + 1)
             ELSE <<s[i]>> \o replaceBeforeCloseParen(s, i + 1)

\* Mutant of replaceAroundOperators: the pattern is /([+\-*/])/g, the
\* whitespace around the operator is not part of the match.
RECURSIVE replaceAroundOperators_keepsSpaces(_, _)
replaceAroundOperators_keepsSpaces(s, i) ==
    IF i > Len(s) THEN <<>>
    ELSE IF s[i] \in OperatorChars
         THEN <<" ", s[i], " ">> \o replaceAroundOperators_keepsSpaces(s, i + 1)
         ELSE <<s[i]>> \o replaceAroundOperators_keepsSpaces(s, i + 1)

\* .replace(/\s*([+\-*/])\s*/g, ' $1 ') from index i on
RECURSIVE replaceAroundOperators(_, _)
replaceAroundOperators(s, i) ==
    IF i > Len(s) THEN <<>>
    ELSE LET j == SkipWhitespace(s, i)
         IN  IF j <= Len(s) /\ s[j] \in OperatorChars
             THEN <<" ", s[j], " ">> \o replaceAroundOperators(s, SkipWhitespace(s, j + 1))
             ELSE <<s[i]>> \o replaceAroundOperators(s, i + 1)

formatExpression(expression) ==
    trim(replaceAroundOperators(
             replaceBeforeCloseParen(
                 replaceAfterOpenParen(
                     replaceWhitespaceRuns(expression, 1), 1), 1), 1))

\* Mutant of insertOperator: the operator found before the cursor is kept
\* and the new one is put after it.
insertOperator_stacks(expression, operator, cursorPos) ==
    LET before == trimEnd(slice(expression, 0, cursorPos))
        after == trimStart(sliceFrom(expression, cursorPos))
    IN  [expression |-> before \o <<" ">> \o operator \o <<" ">> \o after,
         cursorPos  |-> Len(before) + Len(operator) + 2]

insertOperator(expression, operator, cursorPos) ==
    LET before == trimEnd(slice(expression, 0, cursorPos))
        after == trimStart(sliceFrom(expression, cursorPos))
    IN  IF Len(before) > 0 /\ before[Len(before)] \in OperatorChars
        THEN LET newBefore == slice(before, 0, -1)
             IN  [expression |-> newBefore \o <<" ">> \o operator \o <<" ">> \o after,
                  cursorPos  |-> Len(newBefore) + Len(operator) + 2]
        ELSE [expression |-> before \o <<" ">> \o operator \o <<" ">> \o after,
              cursorPos  |-> Len(before) + Len(operator) + 2]

\* The last utility called and its arguments.
utilCall(op, expression, operator, cursorPos) ==
    [op |-> op, expression |-> expression, operator |-> operator, cursorPos |-> cursorPos]

\* A string to hand to the utilities; no hook is mounted.
InitUtils ==
    /\ value \in UtilStrings
    /\ undoStack = <<>>
    /\ redoStack = <<>>
    /\ maxHistory = 0
    /\ cursorPosition = 0
    /\ selectionStart = 0
    /\ selectionEnd = 0
    /\ isValid = TRUE
    /\ validator = "none"
    /\ pending = <<>>
    /\ notified = <<>>
    /\ lastOp = utilCall("input", value, <<>>, 0)
    /\ ghost = NoGhost(TRUE)

\* isValid receives validateExpression(value).
ValidateExpression ==
    /\ isValid' = validateExpression(value)
    /\ lastOp' = utilCall("validateExpression", value, <<>>, 0)
    /\ UNCHANGED <<historyVars, maxHistory, cursorPosition, selectionStart, selectionEnd,
                   validator, pending, notified, ghost>>

\* value receives formatExpression(value).
FormatExpression ==
    /\ value' = formatExpression(value)
    /\ lastOp' = utilCall("formatExpression", value, <<>>, 0)
    /\ UNCHANGED <<undoStack, redoStack, maxHistory, editorVars, validator, pending,
                   notified, ghost>>

\* value and cursorPosition receive insertOperator(value, operator, cursorPos).
InsertOperator(operator, cursorPos) ==
    /\ Len(value) <= MaxUtilLen
    /\ value' = insertOperator(value, operator, cursorPos).expression
    /\ cursorPosition' = insertOperator(value, operator, cursorPos).cursorPos
    /\ lastOp' = utilCall("insertOperator", value, operator, cursorPos)
    /\ UNCHANGED <<undoStack, redoStack, maxHistory, selectionStart, selectionEnd, isValid,
                   validator, pending, notified, ghost>>

NextUtils ==
    \/ ValidateExpression
    \/ FormatExpression
    \/ \E operator \in UtilOperators : \E cursorPos \in 0..Len(value) :
           InsertOperator(operator, cursorPos)

SpecUtils == InitUtils /\ [][NextUtils]_vars

\* How many of the first k characters of s are ch.
CountOf(s, ch, k) == Cardinality({i \in 1..k : s[i] = ch})

\* The open / close pair is balanced in s: no prefix closes more than it
\* opens, and the whole string closes all it opens.
Balanced(s, open, close) ==
    /\ \A k \in 1..Len(s) : CountOf(s, open, k) >= CountOf(s, close, k)
    /\ CountOf(s, open, Len(s)) = CountOf(s, close, Len(s))

\* C26: validateExpression(s) is true exactly when the parentheses of s are
\* balanced and the square brackets of s are balanced, each on its own; curly
\* braces do not count and the empty or blank string is valid.
C26_ValidIffParensAndBracketsBalanced ==
    lastOp.op = "validateExpression"
        => (isValid <=> (Balanced(value, "(", ")") /\ Balanced(value, "[", "]")))

\* C26 witness: '([)]' was validated and found valid, the two kinds of
\* bracket being counted independently.
C26_Witness ==
    /\ lastOp.op = "validateExpression"
    /\ value = <<"(", "[", ")", "]">>
    /\ isValid

\* C27: formatExpression(formatExpression(s)) = formatExpression(s).
C27_FormatIsIdempotent ==
    lastOp.op = "formatExpression" => formatExpression(value) = value

\* C27 witness: a string with two operators in a row next to a parenthesis
\* was formatted, and formatting changed it.
C27_Witness ==
    /\ lastOp.op = "formatExpression"
    /\ lastOp.expression = <<"(", "+", "-", "a">>
    /\ value # lastOp.expression

\* C28: insertOperator(expr, op, pos): when the right-trimmed prefix expr[0:pos]
\* ends in an operator character, that operator is replaced by op; otherwise op
\* is inserted with exactly one space on each side. In both cases cursorPos is
\* the index just after the inserted operator and its trailing space.
C28_InsertOperatorReplacesOrSpaces ==
    lastOp.op = "insertOperator"
        => LET expr == lastOp.expression
               op == lastOp.operator
               before == trimEnd(Prefix(expr, lastOp.cursorPos))
               after == trimStart(Suffix(expr, lastOp.cursorPos))
               replaced == Len(before) > 0 /\ before[Len(before)] \in OperatorChars
               kept == IF replaced THEN Prefix(before, Len(before) - 1) ELSE before
               c == cursorPosition
           IN  /\ value = kept \o <<" ">> \o op \o <<" ">> \o after
               /\ c = Len(kept) + 1 + Len(op) + 1
               /\ SubSeq(value, c - Len(op), c) = op \o <<" ">>
               /\ value[c - Len(op) - 1] = " "
               /\ ~replaced => /\ (c - Len(op) - 2 >= 1 => value[c - Len(op) - 2] # " ")
                               /\ (c + 1 <= Len(value) => value[c + 1] # " ")

\* C28 witness: '-' was inserted after 'a +', replacing the '+'.
C28_Witness ==
    /\ lastOp.op = "insertOperator"
    /\ lastOp.expression = <<"a", " ", "+">>
    /\ lastOp.operator = <<"-">>
    /\ lastOp.cursorPos = Len(lastOp.expression)
    /\ value = <<"a", " ", " ", "-", " ">>

(***************************************************************************)
(* History is only moved by undo and redo (checked under SpecUndoRedo)     *)
(***************************************************************************)
\* Every value the hook holds, oldest first: the undo stack, the current
\* value, then the undone values in the order redo() would bring them back.
Timeline(h) == h.undoStack \o <<h.value>> \o h.redoStack

\* C32: with maxHistory >= 1 the two stacks together never hold more than
\* maxHistory entries, and undo() and redo() only move entries between the
\* stacks and the current value: the slice caps inside them drop nothing, so
\* the number of entries and the entries themselves are preserved.
C32_UndoRedoNeverDiscardHistory ==
    [][maxHistory >= 1 =>
          /\ Len(undoStack') + Len(redoStack') <= maxHistory
          /\ lastOp'.op \in {"undo", "redo", "undo;redo"} =>
                 /\ Len(undoStack') + Len(redoStack') = Len(undoStack) + Len(redoStack)
                 /\ Timeline(state') = Timeline(state)]_vars

\* C32 witness: with maxHistory = 2 both entries have been undone, so the cap
\* slice(0, maxHistory) in undo() was applied to a redo stack of exactly
\* maxHistory entries.
C32_Witness ==
    /\ maxHistory = 2
    /\ lastOp.op = "undo"
    /\ Len(lastOp.prev.undoStack) = 1
    /\ Len(undoStack) = 0
    /\ Len(redoStack) = 2

(***************************************************************************)
(* AdvancedExpressionEditor: keyboard shortcuts (SpecKeyboard)             *)
(***************************************************************************)
\* `const { maxHistory = 50, enableKeyboardShortcuts = true, ... } = options`:
\* the component passes neither option, so the hook runs with the defaults.
DefaultMaxHistory == 50

enableKeyboardShortcuts == TRUE

\* Ctrl/Cmd+Z and Ctrl/Cmd+Y, as e.key with the modifier held.
ShortcutKeys == {"z", "y"}

\* The component's onKeyDown handler on the textarea: it calls the editor's
\* undo() or redo(); preventDefault() does not stop the event.
handleKeyDown(cur, r, key) ==
    CASE key = "z" -> editorUndo(cur, r)
      [] key = "y" -> editorRedo(cur, r)

\* The listener useUndoRedo adds to window: it calls the hook's own undo() or
\* redo().
keyboardListener(cur, key) ==
    CASE key = "z" -> [withHook(cur, undo(hookOf(cur))) EXCEPT
                          !.calls = cur.calls \o undoCalls(hookOf(cur))]
      [] key = "y" -> [withHook(cur, redo(hookOf(cur))) EXCEPT
                          !.calls = cur.calls \o redoCalls(hookOf(cur))]

\* One keydown on the focused textarea: the event reaches the component's
\* handler and then bubbles to window, where the hook's listener runs if it
\* was installed. All the updaters queued are applied by the next render.
keydown(cur, r, key) ==
    IF enableKeyboardShortcuts
    THEN keyboardListener(handleKeyDown(cur, r, key), key)
    ELSE handleKeyDown(cur, r, key)

\* <AdvancedExpressionEditor initialValue={...} validator={...} /> mounted.
InitKeyboard ==
    /\ value \in Expressions
    /\ undoStack = <<>>
    /\ redoStack = <<>>
    /\ maxHistory = DefaultMaxHistory
    /\ cursorPosition = Len(value)
    /\ selectionStart = 0
    /\ selectionEnd = 0
    /\ isValid = TRUE
    /\ validator \in {"none", "validateExpression"}
    /\ pending = <<>>
    /\ notified = <<>>
    /\ lastOp = [op |-> "mount", accepted |-> <<>>]
    /\ ghost = NoGhost(Valid(value))

\* handleChange: the textarea's new content goes to editor.setExpression.
HandleChange(expression) ==
    /\ Len(undoStack) < MaxStack
    /\ SetExpression(expression)

KeyDown(key) ==
    Render(keydown(editor, editor, key), "keydown " \o key) /\ UNCHANGED pending

NextKeyboard ==
    \/ \E expression \in Expressions : HandleChange(expression)
    \/ \E key \in ShortcutKeys : KeyDown(key)

SpecKeyboard == InitKeyboard /\ [][NextKeyboard]_vars

(***************************************************************************)
(* useExpressionEditor as a whole                                          *)
(***************************************************************************)
\* A Ctrl/Cmd+Z or Ctrl/Cmd+Y keydown anywhere in the window while the hook is
\* mounted: only the listener of the inner useUndoRedo runs, which undoes or
\* redoes without moving the cursor or calling onExpressionChange.
WindowKeyDown(key) ==
    /\ enableKeyboardShortcuts
    /\ Render(keyboardListener(editor, key), "window keydown " \o key)
    /\ UNCHANGED pending

\* Every step of a mounted useExpressionEditor: a call of one of the actions
\* it returns, a clipboard promise settling, a keydown reaching the window.
Next ==
    \/ NextEditing
    \/ \E start, end \in Positions : SetSelection(start, end)
    \/ (Len(pending) < MaxInFlight /\ Copy)
    \/ (Len(pending) < MaxInFlight /\ PasteCall)
    \/ Settle
    \/ \E key \in ShortcutKeys : WindowKeyDown(key)

Spec == Init /\ [][Next]_vars

\* C31: one Ctrl/Cmd+Z keydown on the textarea is exactly one undo step, the
\* undo stack losing one entry and the redo stack gaining one, and one
\* Ctrl/Cmd+Y keydown is exactly one redo step.
C31_OneKeydownOneHistoryStep ==
    [][/\ (lastOp'.op = "keydown z" /\ Len(undoStack) > 0)
            => /\ state' = undo(state)
               /\ Len(undoStack') = Len(undoStack) - 1
               /\ Len(redoStack') = Len(redoStack) + 1
       /\ (lastOp'.op = "keydown y" /\ Len(redoStack) > 0)
            => /\ state' = redo(state)
               /\ Len(redoStack') = Len(redoStack) - 1
               /\ Len(undoStack') = Len(undoStack) + 1]_vars

(***************************************************************************)
(* The validity flag and the change notification (under SpecEditing)       *)
(***************************************************************************)
\* The operations that never call setExpression.
UngatedOps == {"undo", "redo", "setCursorPosition"}

\* C33: isValid is the validator's verdict on the expression the editor
\* exposes. Stated for the case the claim singles out: in an editor mounted
\* with an expression the validator accepts, after an operation that does not
\* call setExpression (an undo, a redo, a cursor move) the flag does not
\* report invalid for the committed, valid expression.
C33_IsValidMatchesExpression ==
    (ghost.initialValid /\ lastOp.op \in UngatedOps) => (isValid <=> Valid(value))

\* C34: after setExpression, undo and redo the value last passed to
\* onExpressionChange, if the handler passed one, is the expression the
\* editor holds, so a listener that mirrors it holds the same string.
C34_NotifiedValueIsExpression ==
    lastOp.op \in {"setExpression", "undo", "redo"}
        => \A i \in 1..Len(notified) :
               notified[i].callback = "onExpressionChange" => notified[i].value = value

(***************************************************************************)
(* Smart edit operations and validity (SpecSmartEdits)                     *)
(***************************************************************************)
\* The operators the claim ranges over, and a function name of the keypad.
SmartOperators == {<<"+">>, <<"-">>, <<"*">>, <<"/">>}

FunctionNames == {<<"s", "i", "n">>}

\* Mutant of insertFunction: the closing parenthesis is not appended.
insertFunction_unclosed(expression, functionName, cursorPos) ==
    LET before == trimEnd(slice(expression, 0, cursorPos))
        after == trimStart(sliceFrom(expression, cursorPos))
    IN  [expression |-> before \o functionName \o <<"(">> \o after,
         cursorPos  |-> Len(before) + Len(functionName) + 1]

insertFunction(expression, functionName, cursorPos) ==
    LET before == trimEnd(slice(expression, 0, cursorPos))
        after == trimStart(sliceFrom(expression, cursorPos))
    IN  [expression |-> before \o functionName \o <<"(">> \o after \o <<")">>,
         cursorPos  |-> Len(before) + Len(functionName) + 1]

insertParentheses(expression, cursorPos) ==
    LET before == slice(expression, 0, cursorPos)
        after == sliceFrom(expression, cursorPos)
    IN  [expression |-> before \o <<"(", ")">> \o after,
         cursorPos  |-> Len(before) + 1]

\* value and cursorPosition receive insertFunction(value, functionName, cursorPos).
InsertFunction(functionName, cursorPos) ==
    /\ Len(value) <= MaxUtilLen
    /\ value' = insertFunction(value, functionName, cursorPos).expression
    /\ cursorPosition' = insertFunction(value, functionName, cursorPos).cursorPos
    /\ lastOp' = utilCall("insertFunction", value, functionName, cursorPos)
    /\ UNCHANGED <<undoStack, redoStack, maxHistory, selectionStart, selectionEnd, isValid,
                   validator, pending, notified, ghost>>

\* value and cursorPosition receive insertParentheses(value, cursorPos).
InsertParentheses(cursorPos) ==
    /\ Len(value) <= MaxUtilLen
    /\ value' = insertParentheses(value, cursorPos).expression
    /\ cursorPosition' = insertParentheses(value, cursorPos).cursorPos
    /\ lastOp' = utilCall("insertParentheses", value, <<>>, cursorPos)
    /\ UNCHANGED <<undoStack, redoStack, maxHistory, selectionStart, selectionEnd, isValid,
                   validator, pending, notified, ghost>>

NextSmartEdits ==
    \/ \E operator \in SmartOperators : \E cursorPos \in 0..Len(value) :
           InsertOperator(operator, cursorPos)
    \/ \E functionName \in FunctionNames : \E cursorPos \in 0..Len(value) :
           InsertFunction(functionName, cursorPos)
    \/ \E cursorPos \in 0..Len(value) : InsertParentheses(cursorPos)

SpecSmartEdits == InitUtils /\ [][NextSmartEdits]_vars

SmartEdits == {"insertOperator", "insertFunction", "insertParentheses"}

\* C35: the smart edit operations preserve validity: when validateExpression
\* accepts e, it accepts the expression insertOperator, insertFunction and
\* insertParentheses return for e at any cursor position in [0, len(e)].
C35_SmartEditsPreserveValidity ==
    (lastOp.op \in SmartEdits /\ validateExpression(lastOp.expression))
        => validateExpression(value)

\* C35 witness: 'sin' was inserted inside the parentheses of '(a)', between
\* an open parenthesis before the cursor and its close after it.
C35_Witness ==
    /\ lastOp.op = "insertFunction"
    /\ lastOp.expression = <<"(", "a", ")">>
    /\ lastOp.cursorPos = 1
    /\ value = <<"(", "s", "i", "n", "(", "a", ")", ")">>
    /\ validateExpression(value)

====
